---- MODULE Spec2Model ----
(***************************************************************************)
(* A model of cargo-crates (src/src/main.rs): the install-root locator,    *)
(* the binary lister, the metadata scanner over <root>/registry/src, the   *)
(* argument parser and main's reporter loop.                               *)
(*                                                                         *)
(* Strings are TLA+ strings; offsets are 0-based byte offsets as in the    *)
(* Rust source (all modelled text is ASCII, so bytes and characters        *)
(* coincide).  An OsString that is not valid UTF-8 is written with the     *)
(* marker BadBytes inside it.  Terminal colours are not modelled: a        *)
(* coloured string is its plain text.                                      *)
(***************************************************************************)
EXTENDS Integers, Sequences, FiniteSets, TLC

VARIABLES
    args,          \* env::args(), the process's argument vector
    env,           \* the process environment: variable name -> value or unset
    fs,            \* the file system: candidate root path -> directory tree
    pc,            \* main's position
    options,       \* CliOptions returned by parse_args
    install_dirs,  \* Vec<String> returned by determine_pkgs_install_dir
    di,            \* index of the next element of install_dirs in the merge loop
    pkgs,          \* main's pkgs: the listed binaries of all roots
    map,           \* main's map: key -> <<version, description>>
    inserted,      \* history: every HashMap insertion made by a scan, in order
    pi,            \* index of the next element of pkgs in the reporter loop
    resolved,      \* history: per reported binary, the looked-up (ver, desc)
    stdout,        \* everything printed so far
    panic_msg      \* the message of the panic that ended the run, or ""

vars == <<args, env, fs, pc, options, install_dirs, di, pkgs, map, inserted,
          pi, resolved, stdout, panic_msg>>

-----------------------------------------------------------------------------
(* Bounds of the model.                                                    *)

MaxArgs == 3      \* length of the argument vector, program name included
MaxEntries == 2   \* package directories in the source cache of one root
MaxRegs == 2      \* registry directories under <root>/registry/src
MaxBins == 2      \* entries of <root>/bin

-----------------------------------------------------------------------------
(* str: the string operations the program uses.                            *)

\* Option<usize> of str::find: the offset, or NoIdx for None.
NoIdx == 0 - 1

\* The marker standing for a byte sequence that is not valid UTF-8.
BadBytes == "<FF>"

\* &s[a..b]; the caller checks a <= b <= Len(s) (Rust panics otherwise).
Slice(s, a, b) == SubSeq(s, a + 1, b)

\* &s[a..]
SliceFrom(s, a) == SubSeq(s, a + 1, Len(s))

\* Whether &s[a..b] is a valid range.
SliceOk(s, a, b) == 0 <= a /\ a <= b /\ b <= Len(s)

\* The offsets at which pat occurs in s.
Occurrences(s, pat) ==
    {i \in 0..(Len(s) - Len(pat)) : SubSeq(s, i + 1, i + Len(pat)) = pat}

\* str::find: the offset of the first occurrence.
Find(s, pat) ==
    LET occ == Occurrences(s, pat)
    IN  IF occ = {} THEN NoIdx ELSE CHOOSE i \in occ : \A j \in occ : i <= j

\* str::rfind: the offset of the last occurrence.
RFind(s, pat) ==
    LET occ == Occurrences(s, pat)
    IN  IF occ = {} THEN NoIdx ELSE CHOOSE i \in occ : \A j \in occ : j <= i

\* str::contains
Contains(s, pat) == Find(s, pat) # NoIdx

\* OsStr::to_str / String::from_utf8 succeed.
IsUtf8(s) == ~Contains(s, BadBytes)

\* The byte at offset i of s, or "" past the end.
CharAt(s, i) == IF 0 <= i /\ i < Len(s) THEN SubSeq(s, i + 1, i + 1) ELSE ""

IsDigit(c) == c \in {"0", "1", "2", "3", "4", "5", "6", "7", "8", "9"}

\* Whether the bytes of s at offsets from..to-1 are all digits (and exist).
AllDigits(s, from, to) == \A k \in from..(to - 1) : IsDigit(CharAt(s, k))

\* Whether the regex -\d{1,3}\.\d{1,3}\.\d{1,3} matches s starting at offset i.
\* Only the start of the match is used by the program, so the third group
\* needs one digit.
ReMatchAt(s, i) ==
    /\ CharAt(s, i) = "-"
    /\ \E a \in 1..3 : \E b \in 1..3 :
          /\ AllDigits(s, i + 1, i + 1 + a)
          /\ CharAt(s, i + 1 + a) = "."
          /\ AllDigits(s, i + 2 + a, i + 2 + a + b)
          /\ CharAt(s, i + 2 + a + b) = "."
          /\ IsDigit(CharAt(s, i + 3 + a + b))

\* A search that returns the start of the rightmost match instead.
ReFindLastStart(s) ==
    LET m == {i \in 0..(Len(s) - 1) : ReMatchAt(s, i)}
    IN  IF m = {} THEN NoIdx ELSE CHOOSE i \in m : \A j \in m : j <= i

\* Regex::find(..).start(): the start of the leftmost match, or NoIdx.
ReFindStart(s) ==
    LET m == {i \in 0..(Len(s) - 1) : ReMatchAt(s, i)}
    IN  IF m = {} THEN NoIdx ELSE CHOOSE i \in m : \A j \in m : i <= j

-----------------------------------------------------------------------------
(* Results and options.                                                    *)

Ok(s) == [ok |-> TRUE, v |-> s]
NotPresent == [ok |-> FALSE, v |-> "NotPresent"]
NotUnicode == [ok |-> FALSE, v |-> "NotUnicode"]

Some(x) == [some |-> TRUE, v |-> x]
None == [some |-> FALSE]

EmptyMap == [k \in {} |-> <<"", "">>]

\* HashMap::insert: the new value replaces an old one under the same key.
Insert(m, key, val) ==
    [k \in DOMAIN m \cup {key} |-> IF k = key THEN val ELSE m[k]]

\* HashMap::extend: every pair of m2 is inserted into m1.
Extend(m1, m2) ==
    [k \in DOMAIN m1 \cup DOMAIN m2 |-> IF k \in DOMAIN m2 THEN m2[k] ELSE m1[k]]

-----------------------------------------------------------------------------
(* determine_pkgs_install_dir                                              *)

\* env::var(name)
env_var(e, name) == e[name]

\* Result::map(|x| x + "/.cargo")
MapCargo(r) == IF r.ok THEN Ok(r.v \o "/.cargo") ELSE r

\* Vec::dedup: of every run of consecutive equal elements the first is kept.
RECURSIVE Dedup(_)
Dedup(s) ==
    IF Len(s) <= 1 THEN s
    ELSE LET rest == Dedup(Tail(s))
         IN  IF Head(s) = Head(Tail(s)) THEN rest ELSE <<Head(s)>> \o rest

\* fs::read_dir(path).is_ok() for a candidate root.
ReadDirOk(f, path) == path \in DOMAIN f /\ f[path].exists

\* The candidates in the order of lines 19-23.
Candidates(e) ==
    << env_var(e, "CARGO_INSTALL_ROOT"),
       env_var(e, "CARGO_HOME"),
       MapCargo(env_var(e, "HOME")) >>

\* [r.v : r in s], the values of a sequence of Ok results.
RECURSIVE Values(_)
Values(s) == IF s = <<>> THEN <<>> ELSE <<Head(s).v>> \o Values(Tail(s))

\* A locator that forgets the existence filter of lines 27-33.
determine_pkgs_install_dir_unfiltered(e, f) ==
    Values(SelectSeq(Dedup(Candidates(e)), LAMBDA r : r.ok))

determine_pkgs_install_dir(e, f) ==
    LET dirs == Dedup(Candidates(e))
        kept == SelectSeq(dirs, LAMBDA r : r.ok /\ ReadDirOk(f, r.v))
    IN  Values(kept)

-----------------------------------------------------------------------------
(* list_pkgs                                                               *)

list_pkgs(f, ir) ==
    LET ir_bin == f[ir].bin
        names == SelectSeq(ir_bin.entries, IsUtf8)
    IN  IF ~ir_bin.ok THEN None
        ELSE IF names = <<>> THEN None
        ELSE Some(names)

-----------------------------------------------------------------------------
(* get_pkgs_info                                                           *)

\* The state of a scan: tag "run" while the loops run, "none" once the
\* function has returned None early, "panic" once it has panicked.
ScanState(tag, m, log) == [tag |-> tag, map |-> m, log |-> log]

\* An entry of the insertion history: map.insert(key, val) made for the
\* package directory dir, as its primary record or its alternative name.
Insertion(dir, kind, key, val) == [dir |-> dir, kind |-> kind, key |-> key, val |-> val]

DescMarker == "description = \""
BinMarker == "[[bin]]\nname = \""

\* Lines 115-128: the alternative name, after the primary record is inserted.
ScanAltName(m, log, dir_name, content, val) ==
    LET start == Find(content, BinMarker)
        from == start + Len(BinMarker)
        end == Find(SliceFrom(content, from), "\n")
        alt_pkg_name == Slice(content, from, from + end - 1)
    IN  IF start = NoIdx THEN ScanState("run", m, log)
        ELSE IF end = NoIdx THEN ScanState("run", m, log)
        ELSE IF ~SliceOk(content, from, from + end - 1)
             THEN ScanState("panic", m, log)
        ELSE ScanState("run", Insert(m, alt_pkg_name, val),
                       Append(log, Insertion(dir_name, "alt", alt_pkg_name, val)))

\* Lines 104-113: split the directory name and insert the primary record.
ScanSplit(m, log, pkg_name, content, desc) ==
    LET split_c == ReFindStart(pkg_name)
        pkg_ver == SliceFrom(pkg_name, split_c + 1)
        name == Slice(pkg_name, 0, split_c)
        val == <<pkg_ver, desc>>
    IN  IF split_c = NoIdx THEN ScanState("run", m, log)
        ELSE ScanAltName(Insert(m, name, val),
                         Append(log, Insertion(pkg_name, "primary", name, val)),
                         pkg_name, content, val)

\* Lines 96-102: the description.
ScanDesc(m, log, pkg_name, content) ==
    LET start == Find(content, DescMarker)
        end == Find(SliceFrom(content, start), "\n")
        decs == Slice(content, start, start + end)
        qstart == Find(decs, "\"")
        qend == RFind(decs, "\"")
        desc == Slice(decs, qstart + 1, qend)
    IN  IF start = NoIdx THEN ScanState("run", m, log)
        ELSE IF end = NoIdx THEN ScanState("run", m, log)
        ELSE IF qstart = NoIdx \/ qend = NoIdx THEN ScanState("run", m, log)
        ELSE IF ~SliceOk(decs, qstart + 1, qend) THEN ScanState("panic", m, log)
        ELSE ScanSplit(m, log, pkg_name, content, desc)

\* dir.path(): the path of a package directory.
DirPath(ir_source, reg, dir) == ir_source \o "/" \o reg.name \o "/" \o dir.name

\* Lines 84-128: the body of the inner loop for one package directory.
ScanEntry(m, log, ir_source, reg, dir) ==
    IF ~IsUtf8(dir.name) THEN ScanState("run", m, log)
    ELSE IF ~IsUtf8(DirPath(ir_source, reg, dir)) THEN ScanState("none", m, log)
    ELSE IF ~dir.manifest.ok THEN ScanState("run", m, log)
    ELSE IF ~IsUtf8(dir.manifest.content) THEN ScanState("run", m, log)
    ELSE ScanDesc(m, log, dir.name, dir.manifest.content)

\* Lines 83-129: the inner loop from the i-th package directory on.
RECURSIVE ScanDirs(_, _, _, _)
ScanDirs(st, ir_source, reg, i) ==
    IF st.tag # "run" \/ i > Len(reg.entries) THEN st
    ELSE ScanDirs(ScanEntry(st.map, st.log, ir_source, reg, reg.entries[i]),
                  ir_source, reg, i + 1)

\* Lines 79-130: the outer loop from the j-th registry directory on.
RECURSIVE ScanRegs(_, _, _, _)
ScanRegs(st, ir_source, regs, j) ==
    IF st.tag # "run" \/ j > Len(regs) THEN st
    ELSE IF ~regs[j].ok THEN ScanRegs(st, ir_source, regs, j + 1)
    ELSE ScanRegs(ScanDirs(st, ir_source, regs[j], 1), ir_source, regs, j + 1)

\* The result has tag "some" (with the map), "none" or "panic"; log is the
\* sequence of insertions the scan made.
\* Lines 70-130: the scan of an opened source cache; the tag is still "run"
\* when both loops ran to their end.
ScanLoops(f, ir) ==
    ScanRegs(ScanState("run", EmptyMap, <<>>), ir \o "/registry/src", f[ir].src.entries, 1)

get_pkgs_info(f, ir) ==
    LET src == f[ir].src
        st == ScanLoops(f, ir)
    IN  IF ~src.ok THEN ScanState("none", EmptyMap, <<>>)
        ELSE IF st.tag # "run" THEN st
        ELSE IF DOMAIN st.map = {} THEN ScanState("none", st.map, st.log)
        ELSE ScanState("some", st.map, st.log)

-----------------------------------------------------------------------------
(* parse_args                                                              *)

NoOptions == [print_versions |-> FALSE, print_descs |-> FALSE, print_paths |-> FALSE]

IsHelp(arg) == arg = "-h" \/ arg = "--help"

\* Lines 182-190: the loop from the i-th argument on; help is TRUE when
\* print_help was called (which exits the process).
RECURSIVE ParseLoop(_, _, _)
ParseLoop(a, i, op) ==
    IF i > Len(a) THEN [help |-> FALSE, op |-> op]
    ELSE IF IsHelp(a[i]) THEN [help |-> TRUE, op |-> op]
    ELSE ParseLoop(a, i + 1,
                   [print_versions |-> Contains(a[i], "v"),
                    print_descs |-> Contains(a[i], "d"),
                    print_paths |-> Contains(a[i], "p")])

\* args.into_iter().skip(SkipCount): the number of leading arguments the
\* loop does not look at.
SkipCount == 1

parse_args(a) == ParseLoop(a, SkipCount + 1, NoOptions)

-----------------------------------------------------------------------------
(* The inputs of a run: argument vectors, environments and file systems.   *)

\* All sequences over S of length at most n.
SeqUpTo(S, n) == UNION {[1..k -> S] : k \in 0..n}

ArgStrings == {"cargo-crates", "vdp", "vd", "dp", "vp", "", "asfv", "-h", "--help"}
ArgLists == SeqUpTo(ArgStrings, MaxArgs)
DefaultArgs == <<"cargo-crates", "-vd">>

\* The values of the three environment variables.
OverrideVals == {NotPresent, NotUnicode, Ok("/r1"), Ok("/h/.cargo")}
HomeVarVals == {NotPresent, NotUnicode, Ok("/r1"), Ok("/r2"), Ok("/h/.cargo")}
UserHomeVals == {NotPresent, NotUnicode, Ok("/h"), Ok("/r1")}

EnvOf(o, c, h) ==
    [n \in {"CARGO_INSTALL_ROOT", "CARGO_HOME", "HOME"} |->
        IF n = "CARGO_INSTALL_ROOT" THEN o ELSE IF n = "CARGO_HOME" THEN c ELSE h]
Envs == {EnvOf(o, c, h) : o \in OverrideVals, c \in HomeVarVals, h \in UserHomeVals}
DefaultEnv == EnvOf(NotPresent, Ok("/r1"), Ok("/h"))

\* The paths a candidate can name.
RootPaths == {"/r1", "/r2", "/h/.cargo", "/r1/.cargo"}

\* A manifest file: ok is whether File::open succeeds.
File(content) == [ok |-> TRUE, content |-> content]
NoFile == [ok |-> FALSE, content |-> ""]
PkgDir(name, manifest) == [name |-> name, manifest |-> manifest]

\* A directory: ok is whether fs::read_dir succeeds.
Dir(entries) == [ok |-> TRUE, entries |-> entries]
NoDir == [ok |-> FALSE, entries |-> <<>>]
Registry(name, entries) == [name |-> name, ok |-> TRUE, entries |-> entries]
UnreadableRegistry == [name |-> "unreadable", ok |-> FALSE, entries |-> <<>>]

Tree(bin, src) == [exists |-> TRUE, bin |-> bin, src |-> src]
NoTree == [exists |-> FALSE, bin |-> NoDir, src |-> NoDir]

AlphaDir == PkgDir("alpha-0.1.0", File("[package]\nname = \"alpha\"\ndescription = \"demo\"\n"))
Alpha2Dir == PkgDir("alpha-0.2.0", File("description = \"demo2\"\n"))
FooCliDir == PkgDir("foo-cli-1.2.3", File("description = \"builds fast things\"\nlicense = \"MIT\"\n"))
ToolDir ==
    PkgDir("tool-2.0.0", File("description = \"a tool\"\n\n[[bin]]\nname = \"alt-name\"\npath = \"src/main.rs\"\n"))

PkgDirs ==
    { AlphaDir, Alpha2Dir, FooCliDir, ToolDir,
      \* the [[bin]] block ends the file, with no line break after the name
      PkgDir("tool-2.1.0", File("description = \"a tool\"\n[[bin]]\nname = \"alt-name\"")),
      \* a [[bin]] block whose name line ends right after the opening quote
      PkgDir("tool-2.2.0", File("description = \"a tool\"\n[[bin]]\nname = \"\n")),
      \* a [[bin]] block that names a primary package
      PkgDir("beta-3.0.0", File("description = \"other\"\n[[bin]]\nname = \"alpha\"\n")),
      PkgDir("weird_dir_no_version", File("description = \"odd\"\n")),
      \* the first of two matches splits the name; the version runs to the end
      PkgDir("a-1.2.3-4.5.6789", File("description = \"two\"\n")),
      \* four digits before the first dot: no match
      PkgDir("b-1234.5.6", File("description = \"four\"\n")),
      \* a description line with a single quote
      PkgDir("gamma-1.0.0", File("description = \"\nmore\"\n")),
      \* no description
      PkgDir("delta-1.0.0", File("name = \"delta\"\n")),
      \* a description line that ends the file, with no line break after it
      PkgDir("theta-1.0.0", File("name = \"theta\"\ndescription = \"last\"")),
      \* no Cargo.toml
      PkgDir("eps-1.0.0", NoFile),
      \* content that is not UTF-8
      PkgDir("zeta-1.0.0", File("description = \"<FF>\"\n")),
      \* a directory name that is not UTF-8
      PkgDir("eta<FF>-1.0.0", File("description = \"eta\"\n")) }

\* The source caches with one readable registry.
OneRegistrySrcs == {Dir(<<Registry("index.crates.io", e)>>) : e \in SeqUpTo(PkgDirs, MaxEntries)}

\* The registries the source caches with several registries are made of.
RegShapes ==
    { Registry("index.crates.io", <<AlphaDir>>),
      Registry("github.com", <<ToolDir>>),
      Registry("mirror<FF>", <<FooCliDir>>),
      Registry("mirror<FF>", <<PkgDir("eta<FF>-1.0.0", NoFile)>>),
      UnreadableRegistry }
ManyRegistrySrcs == {Dir(r) : r \in SeqUpTo(RegShapes, MaxRegs)}

BinNames == {"alpha", "beta", "tool", "tool.exe", "alt-name", "bin<FF>"}
Bins == {NoDir} \cup {Dir(b) : b \in SeqUpTo(BinNames, MaxBins)}

\* The trees a run starts with when the other inputs vary.
DefaultBin == Dir(<<"alpha", "beta">>)
DefaultSrc == Dir(<<Registry("index.crates.io", <<AlphaDir, ToolDir>>)>>)
DefaultTree(path) ==
    IF path = "/r1" THEN Tree(DefaultBin, DefaultSrc)
    ELSE IF path = "/h/.cargo"
         THEN Tree(Dir(<<"tool.exe">>), Dir(<<Registry("index.crates.io", <<Alpha2Dir>>)>>))
    ELSE Tree(NoDir, NoDir)

\* The trees of the second root when the first root's tree varies.
SecondTrees ==
    { NoTree, DefaultTree("/h/.cargo"),
      Tree(Dir(<<"tool.exe">>),
           Dir(<<Registry("index.crates.io", <<Alpha2Dir>>),
                 Registry("mirror<FF>", <<FooCliDir>>)>>)) }

\* The file system with the given trees at "/r1" and "/h/.cargo".
FsOf(t1, t2) ==
    [p \in RootPaths |-> IF p = "/r1" THEN t1 ELSE IF p = "/h/.cargo" THEN t2 ELSE NoTree]

-----------------------------------------------------------------------------
(* main                                                                    *)

\* The lines print_help prints (colours dropped).
HelpText ==
    << "Usage:", "cargo ls-crates [OPTIONS]", "OPTIONS:", "\t-h --help print help",
       "\t-v print versions", "\t-d print descriptions", "Examples:",
       "cargo ls-crates -v - print package names and versions",
       "cargo ls-crates -d - print package names and descriptions",
       "cargo ls-crates -vd - print package names, descriptions and versions",
       "cargo ls-crates -dv - print package names, descriptions and versions",
       "Note:\nInvalid arguments will be ignored." >>

\* The placeholder of a binary the map has no record of.
Placeholder == <<"n/a", "n/a">>

\* A lookup whose miss yields empty strings instead of the placeholders.
LookupOrEmpty(m, pkg) == IF pkg \in DOMAIN m THEN m[pkg] ELSE <<"", "">>

\* Lines 235-238: map.get(&pkg).cloned().map_or_else(placeholders, |o| o)
Lookup(m, pkg) == IF pkg \in DOMAIN m THEN m[pkg] ELSE Placeholder

\* Lines 239-241: the name with everything from the first ".exe" on removed.
StripExe(pkg) ==
    LET i == Find(pkg, ".exe") IN IF i # NoIdx THEN Slice(pkg, 0, i) ELSE pkg

\* The key the reporter looks a listed binary up under (line 236).
LookupKey(pkg) == pkg

\* Each line of dirs followed by a line break.
RECURSIVE Lines(_)
Lines(dirs) == IF dirs = <<>> THEN <<>> ELSE <<Head(dirs) \o "\n">> \o Lines(Tail(dirs))

InitRun ==
    /\ pc = "start"
    /\ options = NoOptions
    /\ install_dirs = <<>>
    /\ di = 1
    /\ pkgs = <<>>
    /\ map = EmptyMap
    /\ inserted = <<>>
    /\ pi = 1
    /\ resolved = <<>>
    /\ stdout = <<>>
    /\ panic_msg = ""

\* Runs whose argument vector varies.
InitArgs ==
    /\ args \in ArgLists
    /\ env = DefaultEnv
    /\ fs = FsOf(DefaultTree("/r1"), DefaultTree("/h/.cargo"))

\* Runs whose environment and set of existing directories vary.
InitRoots ==
    /\ args = DefaultArgs
    /\ env \in Envs
    /\ \E ex \in SUBSET RootPaths :
          fs = [p \in RootPaths |-> IF p \in ex THEN DefaultTree(p) ELSE NoTree]

\* Runs whose source cache varies: one root with one registry, or two roots
\* with several registries in the first.
InitSrcs ==
    /\ args = DefaultArgs
    /\ env = DefaultEnv
    /\ \/ \E src \in {NoDir} \cup OneRegistrySrcs :
             fs = FsOf(Tree(DefaultBin, src), NoTree)
       \/ \E src \in ManyRegistrySrcs : \E t2 \in SecondTrees :
             fs = FsOf(Tree(DefaultBin, src), t2)

\* Runs whose bin directory varies.
InitBins ==
    /\ args = DefaultArgs
    /\ env = DefaultEnv
    /\ \E bin \in Bins : fs = FsOf(Tree(bin, DefaultSrc), NoTree)

Init == InitRun /\ (InitArgs \/ InitRoots \/ InitSrcs \/ InitBins)

\* Lines 195-198: parse the arguments; a help flag prints the usage and exits.
ParseArgs ==
    /\ pc = "start"
    /\ LET r == parse_args(args)
       IN  /\ options' = r.op
           /\ IF r.help
              THEN pc' = "exit" /\ stdout' = stdout \o HelpText
              ELSE pc' = "locate" /\ stdout' = stdout
    /\ UNCHANGED <<args, env, fs, install_dirs, di, pkgs, map, inserted, pi,
                   resolved, panic_msg>>

\* A main that forgets the panic of lines 202-204.
LocateWithoutPanic ==
    /\ pc = "locate"
    /\ install_dirs' = determine_pkgs_install_dir(env, fs)
    /\ pc' = IF options.print_paths THEN "paths" ELSE "collect"
    /\ di' = 1
    /\ pkgs' = <<>>
    /\ map' = EmptyMap
    /\ UNCHANGED <<args, env, fs, options, inserted, pi, resolved, stdout, panic_msg>>

\* Lines 201-204 and 212-213: locate the roots; panic if there is none.
Locate ==
    /\ pc = "locate"
    /\ install_dirs' = determine_pkgs_install_dir(env, fs)
    /\ IF install_dirs' = <<>>
       THEN pc' = "panic" /\ panic_msg' = "Failed to locate cargo root."
       ELSE /\ pc' = IF options.print_paths THEN "paths" ELSE "collect"
            /\ panic_msg' = panic_msg
    /\ di' = 1
    /\ pkgs' = <<>>
    /\ map' = EmptyMap
    /\ UNCHANGED <<args, env, fs, options, inserted, pi, resolved, stdout>>

\* Lines 205-210: print the roots and exit.
PrintPaths ==
    /\ pc = "paths"
    /\ stdout' = stdout \o Lines(install_dirs)
    /\ pc' = "exit"
    /\ UNCHANGED <<args, env, fs, options, install_dirs, di, pkgs, map,
                   inserted, pi, resolved, panic_msg>>

\* Lines 214-223: one iteration of the loop over the roots.
Collect ==
    /\ pc = "collect"
    /\ di <= Len(install_dirs)
    /\ LET dir == install_dirs[di]
           pkgs_ == list_pkgs(fs, dir)
           map_ == get_pkgs_info(fs, dir)
       IN  /\ pkgs' = IF pkgs_.some THEN pkgs \o pkgs_.v ELSE pkgs
           /\ inserted' = inserted \o map_.log
           /\ map' = IF map_.tag = "some" THEN Extend(map, map_.map) ELSE map
           /\ IF map_.tag = "panic"
              THEN pc' = "panic" /\ panic_msg' = "slice index out of range"
              ELSE pc' = pc /\ panic_msg' = panic_msg
    /\ di' = di + 1
    /\ UNCHANGED <<args, env, fs, options, install_dirs, pi, resolved, stdout>>

\* Lines 225-230: after the loop, panic if nothing was listed or scanned.
CheckCollected ==
    /\ pc = "collect"
    /\ di > Len(install_dirs)
    /\ IF pkgs = <<>>
       THEN pc' = "panic" /\ panic_msg' = "Failed to list packages."
       ELSE IF DOMAIN map = {}
       THEN pc' = "panic" /\ panic_msg' = "Failed to get info."
       ELSE pc' = "report" /\ panic_msg' = panic_msg
    /\ pi' = 1
    /\ UNCHANGED <<args, env, fs, options, install_dirs, di, pkgs, map,
                   inserted, resolved, stdout>>

\* Lines 233-259: one iteration of the reporter loop.
Report ==
    /\ pc = "report"
    /\ pi <= Len(pkgs)
    /\ LET pkg == pkgs[pi]
           found == Lookup(map, LookupKey(pkg))
           name == StripExe(pkg)
           ver == IF options.print_versions THEN " " \o found[1] ELSE ""
           desc == IF options.print_descs THEN " " \o found[2] ELSE ""
           eol == IF options.print_descs \/ options.print_versions THEN "\n" ELSE ""
       IN  /\ resolved' = Append(resolved,
                 [entry |-> pkg, name |-> name, ver |-> found[1], desc |-> found[2]])
           /\ stdout' = Append(stdout, name \o ver \o desc \o " " \o eol)
    /\ pi' = pi + 1
    /\ UNCHANGED <<args, env, fs, pc, options, install_dirs, di, pkgs, map,
                   inserted, panic_msg>>

\* Lines 261-264: end the line of names and return.
Finish ==
    /\ pc = "report"
    /\ pi > Len(pkgs)
    /\ stdout' = IF ~(options.print_descs \/ options.print_versions)
                 THEN Append(stdout, "\n") ELSE stdout
    /\ pc' = "exit"
    /\ UNCHANGED <<args, env, fs, options, install_dirs, di, pkgs, map,
                   inserted, pi, resolved, panic_msg>>

Next ==
    \/ ParseArgs
    \/ Locate
    \/ PrintPaths
    \/ Collect
    \/ CheckCollected
    \/ Report
    \/ Finish

Spec == Init /\ [][Next]_vars

-----------------------------------------------------------------------------
(* Properties.                                                             *)

\* determine_pkgs_install_dir has returned (the run did not exit on help).
LocateRan == pc \notin {"start", "locate"} /\ ~parse_args(args).help

\* The indices of the candidates that are set and name a readable directory.
ExistingCandidates == {i \in 1..3 : Candidates(env)[i].ok /\ ReadDirOk(fs, Candidates(env)[i].v)}

\* dirs is a subsequence of the candidates: its elements are candidates
\* taken at strictly increasing positions.
InPriorityOrder(dirs) ==
    \E g \in [1..Len(dirs) -> 1..3] :
        /\ \A i \in 1..Len(dirs) : Candidates(env)[g[i]] = Ok(dirs[i])
        /\ \A i \in 1..Len(dirs) : \A j \in 1..Len(dirs) : i < j => g[i] < g[j]

\* The three candidates are set, exist and are pairwise distinct.
AllThreeDistinct ==
    /\ ExistingCandidates = 1..3
    /\ Cardinality({Candidates(env)[i].v : i \in 1..3}) = 3

\* C1: the locator returns exactly the candidates that exist as readable
\* directories, in the priority order override, home variable, <HOME>/.cargo,
\* and never a path that does not exist; three distinct existing candidates
\* are returned as the three paths in that order.
LocatorReturnsExistingInOrder ==
    LocateRan =>
        /\ \A i \in 1..Len(install_dirs) : ReadDirOk(fs, install_dirs[i])
        /\ {install_dirs[i] : i \in 1..Len(install_dirs)}
              = {Candidates(env)[i].v : i \in ExistingCandidates}
        /\ InPriorityOrder(install_dirs)
        /\ AllThreeDistinct =>
              install_dirs = <<env["CARGO_INSTALL_ROOT"].v, env["CARGO_HOME"].v,
                               env["HOME"].v \o "/.cargo">>

\* C1 witness: three distinct existing candidates were located.
ThreeRootsLocated ==
    /\ LocateRan
    /\ AllThreeDistinct
    /\ install_dirs = <<"/r1", "/r2", "/h/.cargo">>

\* C2: no path appears more than once in the list the locator returns.
NoRootReturnedTwice ==
    LocateRan =>
        \A i \in 1..Len(install_dirs) : \A j \in 1..Len(install_dirs) :
            i # j => install_dirs[i] # install_dirs[j]

\* C6: when the locator returns the empty list, main ends with the
\* root-not-found panic and nothing else has run: nothing was listed, scanned,
\* looked up or printed, and no candidate directory exists.
RootNotFoundStopsRun ==
    (LocateRan /\ install_dirs = <<>>) =>
        /\ pc = "panic"
        /\ panic_msg = "Failed to locate cargo root."
        /\ pkgs = <<>>
        /\ DOMAIN map = {}
        /\ inserted = <<>>
        /\ resolved = <<>>
        /\ stdout = <<>>
        /\ ExistingCandidates = {}

\* C6 witness: a run that ended with the root-not-found panic.
RootNotFoundReached ==
    /\ pc = "panic"
    /\ panic_msg = "Failed to locate cargo root."
    /\ install_dirs = <<>>

\* C9: for a one-element argument list [s] that is not a help flag, the
\* options are print_versions = (s contains v), print_descs = (s contains d),
\* print_paths = (s contains p).
OneArgumentSetsFlags ==
    (pc # "start" /\ Len(args) = 1 /\ ~IsHelp(args[1])) =>
        options = [print_versions |-> Contains(args[1], "v"),
                   print_descs |-> Contains(args[1], "d"),
                   print_paths |-> Contains(args[1], "p")]

\* The roots the merge loop has scanned so far.
ScannedRoots == {install_dirs[k] : k \in 1..(di - 1)}

\* The scanned roots whose scan ran both loops to their end.
CompletedRoots == {r \in ScannedRoots : fs[r].src.ok /\ ScanLoops(fs, r).tag = "run"}

\* The package directories under the readable registries of a root.
DirsOf(r) ==
    UNION {{reg.entries[i] : i \in 1..Len(reg.entries)} :
              reg \in {fs[r].src.entries[j] : j \in 1..Len(fs[r].src.entries)}}

\* A manifest line description = "<text>" that is followed by a line break.
HasDescription(content) ==
    LET start == Find(content, DescMarker)
        rest == SliceFrom(content, start + Len(DescMarker))
        quote == Find(rest, "\"")
        eol == Find(rest, "\n")
    IN  start # NoIdx /\ quote # NoIdx /\ eol # NoIdx /\ quote < eol

\* A package directory with a UTF-8 name and a readable UTF-8 manifest that
\* has a description.
Eligible(d) ==
    /\ IsUtf8(d.name)
    /\ d.manifest.ok
    /\ IsUtf8(d.manifest.content)
    /\ HasDescription(d.manifest.content)

\* The leftmost match of the version pattern in name starts at offset i.
FirstMatch(name, i) ==
    ReMatchAt(name, i) /\ \A k \in 0..(i - 1) : ~ReMatchAt(name, k)

HasMatch(name) == \E i \in 0..(Len(name) - 1) : ReMatchAt(name, i)

ReportRan == pc = "report" \/ resolved # <<>>

AlphaOnly == [k \in {"alpha"} |-> <<"0.1.0", "demo">>]

\* C7: a listed binary whose lookup key is absent from the index resolves to
\* version n/a and description n/a, raises no error, and the reporter goes on
\* to the next binary; with bin/{alpha, beta} and the single record
\* alpha -> (0.1.0, demo), alpha resolves to (0.1.0, demo), beta to (n/a, n/a).
MissResolvesToPlaceholder ==
    /\ \A i \in 1..Len(resolved) :
          /\ resolved[i].entry = pkgs[i]
          /\ LookupKey(resolved[i].entry) \notin DOMAIN map =>
                (resolved[i].ver = "n/a" /\ resolved[i].desc = "n/a")
    /\ ReportRan => (pc \in {"report", "exit"} /\ panic_msg = "")
    /\ (ReportRan /\ pc = "exit") => Len(resolved) = Len(pkgs)
    /\ (pkgs = <<"alpha", "beta">> /\ map = AlphaOnly /\ Len(resolved) = 2) =>
          /\ <<resolved[1].ver, resolved[1].desc>> = <<"0.1.0", "demo">>
          /\ <<resolved[2].ver, resolved[2].desc>> = <<"n/a", "n/a">>

\* C7 witness: the run over bin/{alpha, beta} with the single record of alpha
\* has ended, beta resolved to the placeholders.
AlphaBetaReported ==
    /\ pc = "exit"
    /\ pkgs = <<"alpha", "beta">>
    /\ map = AlphaOnly
    /\ Len(resolved) = 2
    /\ resolved[2] = [entry |-> "beta", name |-> "beta", ver |-> "n/a", desc |-> "n/a"]

\* C3: a binary whose entry name carries the platform suffix is looked up
\* under the stripped name: when the index holds a record for the stripped
\* name, the resolved version and description are that record's.
SuffixStrippedBeforeLookup ==
    \A i \in 1..Len(resolved) :
        LET entry == resolved[i].entry
            stripped == StripExe(entry)
        IN  (stripped # entry /\ stripped \in DOMAIN map) =>
                <<resolved[i].ver, resolved[i].desc>> = map[stripped]

\* C4: the scan never aborts on a per-entry failure: it never panics, and
\* the record of every entry that did not fail is in the index the scan
\* returns (and so in main's map once the root is merged).
ScanSkipsFailedEntries ==
    /\ pc = "panic" =>
          panic_msg \in {"Failed to locate cargo root.", "Failed to list packages.",
                         "Failed to get info."}
    /\ pc # "panic" => \A j \in 1..Len(inserted) : inserted[j].key \in DOMAIN map

\* The text between the quotes of the name line of the first [[bin]] block.
AltNameOf(content) ==
    LET from == Find(content, BinMarker) + Len(BinMarker)
        quote == Find(SliceFrom(content, from), "\"")
    IN  Slice(content, from, from + quote)

\* The manifest contains [[bin]] immediately followed by name = "<alt>".
HasBinName(content) ==
    /\ Find(content, BinMarker) # NoIdx
    /\ Find(SliceFrom(content, Find(content, BinMarker) + Len(BinMarker)), "\"") # NoIdx
    /\ ~Contains(AltNameOf(content), "\n")

\* C5: for a manifest that yields a primary record and contains [[bin]]
\* immediately followed by name = "<alt>", the scan also inserts exactly
\* <alt> with the identical (version, description) pair.
AlternateNameRegistered ==
    \A j \in 1..Len(inserted) : \A r \in ScannedRoots : \A d \in DirsOf(r) :
        ( /\ inserted[j].kind = "primary"
          /\ inserted[j].dir = d.name
          /\ d.manifest.ok
          /\ HasBinName(d.manifest.content) ) =>
            \E k \in 1..Len(inserted) :
                inserted[k] = Insertion(d.name, "alt", AltNameOf(d.manifest.content),
                                        inserted[j].val)

\* C10: once all roots are scanned and merged, every inserted key maps to
\* the pair of the last insertion made for it, and no lookup happens before
\* the last root is merged.
LastInsertionWins ==
    ReportRan =>
        /\ di > Len(install_dirs)
        /\ \A j \in 1..Len(inserted) :
              (\A k \in (j + 1)..Len(inserted) : inserted[k].key # inserted[j].key) =>
                  /\ inserted[j].key \in DOMAIN map
                  /\ map[inserted[j].key] = inserted[j].val

====
